---- MODULE Spec2Model ----
(***************************************************************************)
(* Model of backend/src/database.py: the GenericDAL constructor, its       *)
(* process-wide lock and flags, and the schema migration pipeline of       *)
(* GenericDAL.__update_schema (reflect, create_all, produce_migrations,    *)
(* add_using_clause, the breadth-first invoke loop, commit / rollback).    *)
(***************************************************************************)
EXTENDS Integers, Sequences, FiniteSets, TLC

\* Number of execution contexts that call GenericDAL().
NumContexts == 2

Contexts == 1..NumContexts

\* Universe of table and column names; SortedTables is Python's sorted() order.
TableNames == {"a", "b"}
SortedTables == <<"a", "b">>
ColNames == {"x", "y"}
ColOrder == <<"x", "y">>

\* Semantic column types (sqlalchemy Integer, Text, postgresql UUID).
Types == {"Integer", "Text", "UUID"}

---------------------------------------------------------------------------
\* Schemas: a schema maps every table name to [exists, cols]; a column is
\* [type, nullable], with type "None" when the table has no such column.

NoCol == [type |-> "None", nullable |-> TRUE]

Col(ty, nl) == [type |-> ty, nullable |-> nl]

ColDescs == {NoCol} \cup {Col(ty, nl) : ty \in Types, nl \in BOOLEAN}

NoTable == [exists |-> FALSE, cols |-> [c \in ColNames |-> NoCol]]

Table(cols) == [exists |-> TRUE, cols |-> cols]

HasCol(tbl, c) == tbl.exists /\ tbl.cols[c].type # "None"

\* The filtered subsequence of ColOrder / SortedTables.
ColsWhere(P(_)) == SelectSeq(ColOrder, P)

TablesWhere(P(_)) == SelectSeq(SortedTables, P)

RECURSIVE Concat(_)
Concat(ss) == IF ss = << >> THEN << >> ELSE Head(ss) \o Concat(Tail(ss))

Range(s) == {s[i] : i \in DOMAIN s}

---------------------------------------------------------------------------
\* Declared entities (static definitions bound to Database.metadata).  Each
\* registry is the declared tables plus the order of their declaration.

DeclaredBoth ==
    [a |-> Table([x |-> Col("Integer", FALSE), y |-> Col("Text", TRUE)]),
     b |-> Table([x |-> Col("UUID", FALSE), y |-> Col("Integer", TRUE)])]

DeclaredOne ==
    [a |-> Table([x |-> Col("UUID", TRUE), y |-> NoCol]),
     b |-> NoTable]

\* The registries considered, each with the order its entities were declared
\* in (nothing in GenericDAL reads that order).
Registries ==
    { [tables |-> DeclaredBoth, order |-> <<"b", "a">>],
      [tables |-> DeclaredOne, order |-> <<"a">>] }

\* The live databases considered: every combination of absent and existing
\* tables over the name universe; column x absent or of any type and
\* nullability, column y absent or nullable of any type (NOT NULL y columns
\* appear once a migration has set them).
LiveColDescs(c) ==
    IF c = "x" THEN ColDescs ELSE {NoCol} \cup {Col(ty, TRUE) : ty \in Types}

LiveTables ==
    {NoTable} \cup
    {Table(cs) : cs \in {f \in [ColNames -> ColDescs] :
                            \A c \in ColNames : f[c] \in LiveColDescs(c)}}

LiveSchemas == [TableNames -> LiveTables]

---------------------------------------------------------------------------
\* alembic operations (alembic.operations.ops), as records.

UpgradeOps(ops) == [kind |-> "UpgradeOps", ops |-> ops]

ModifyTableOps(t, ops) == [kind |-> "ModifyTableOps", table_name |-> t, ops |-> ops]

CreateTableOp(t, cols) == [kind |-> "CreateTableOp", table_name |-> t, columns |-> cols]

DropTableOp(t) == [kind |-> "DropTableOp", table_name |-> t]

AddColumnOp(t, c, col) ==
    [kind |-> "AddColumnOp", table_name |-> t, column_name |-> c, column |-> col]

DropColumnOp(t, c) == [kind |-> "DropColumnOp", table_name |-> t, column_name |-> c]

\* AlterColumnOp(table_name, column_name) with alembic's defaults: nothing
\* modified (modify_type None, modify_nullable None, modify_server_default False).
AlterColumnOp(t, c) ==
    [kind |-> "AlterColumnOp", table_name |-> t, column_name |-> c,
     existing_type |-> "None", modify_type |-> "None",
     existing_nullable |-> "None", modify_nullable |-> "None",
     existing_server_default |-> "False", modify_server_default |-> "False",
     postgresql_using |-> "None"]

PyBool(b) == IF b THEN "True" ELSE "False"

\* isinstance(ty, Integer): sqlalchemy's BigInteger is a subclass of Integer.
IsInteger(ty) == ty \in {"Integer", "BigInteger"}

\* hasattr(elem, "ops")
HasOps(elem) == "ops" \in DOMAIN elem

\* AlterColumnOp.has_changes()
HasChanges(op) ==
    \/ op.modify_type # "None"
    \/ op.modify_nullable # "None"
    \/ op.modify_server_default # "False"

---------------------------------------------------------------------------
\* Variant: reflect is not called, metadata holds the declared tables only.
ReflectNothing(meta, live) == meta

\* Database.metadata.reflect(engine): every live table that metadata does not
\* hold yet is loaded into it; tables already in metadata are left as declared.
Reflect(meta, live) ==
    [t \in TableNames |-> IF live[t].exists /\ ~meta[t].exists THEN live[t] ELSE meta[t]]

\* Variant: create_all is not called, missing tables are left to the diff.
CreateAllNothing(meta, live) == live

\* Database.metadata.create_all(engine): CREATE TABLE, checkfirst, for every
\* table of metadata that the database lacks.
CreateAll(meta, live) ==
    [t \in TableNames |-> IF meta[t].exists /\ ~live[t].exists THEN meta[t] ELSE live[t]]

\* Variant: column types are not compared (compare_type off).
CompareColumnNoType(t, c, mcol, ccol) ==
    [AlterColumnOp(t, c) EXCEPT
        !.existing_type = ccol.type,
        !.existing_nullable = PyBool(ccol.nullable),
        !.modify_nullable =
            IF ccol.nullable # mcol.nullable THEN PyBool(mcol.nullable) ELSE "None"]

\* alembic's column comparators: one AlterColumnOp per column present on both
\* sides, collecting the type change (compare_type) and the nullable change;
\* server defaults are not compared (compare_server_default is off).
CompareColumn(t, c, mcol, ccol) ==
    [AlterColumnOp(t, c) EXCEPT
        !.existing_type = ccol.type,
        !.modify_type = IF ccol.type # mcol.type THEN mcol.type ELSE "None",
        !.existing_nullable = PyBool(ccol.nullable),
        !.modify_nullable =
            IF ccol.nullable # mcol.nullable THEN PyBool(mcol.nullable) ELSE "None"]

\* Variant: the removed columns are dropped before the other column changes.
CompareColumnsDropFirst(t, mtbl, ctbl) ==
    LET added == ColsWhere(LAMBDA c : HasCol(mtbl, c) /\ ~HasCol(ctbl, c))
        both == ColsWhere(LAMBDA c : HasCol(mtbl, c) /\ HasCol(ctbl, c))
        changed == SelectSeq(both, LAMBDA c :
                      HasChanges(CompareColumn(t, c, mtbl.cols[c], ctbl.cols[c])))
        removed == ColsWhere(LAMBDA c : HasCol(ctbl, c) /\ ~HasCol(mtbl, c))
    IN  [i \in 1..Len(removed) |-> DropColumnOp(t, removed[i])]
        \o [i \in 1..Len(added) |-> AddColumnOp(t, added[i], mtbl.cols[added[i]])]
        \o [i \in 1..Len(changed) |->
               CompareColumn(t, changed[i], mtbl.cols[changed[i]], ctbl.cols[changed[i]])]

\* alembic's _compare_columns for one table present on both sides: added
\* columns, then altered columns, then removed columns.
CompareColumns(t, mtbl, ctbl) ==
    LET added == ColsWhere(LAMBDA c : HasCol(mtbl, c) /\ ~HasCol(ctbl, c))
        both == ColsWhere(LAMBDA c : HasCol(mtbl, c) /\ HasCol(ctbl, c))
        changed == SelectSeq(both, LAMBDA c :
                      HasChanges(CompareColumn(t, c, mtbl.cols[c], ctbl.cols[c])))
        removed == ColsWhere(LAMBDA c : HasCol(ctbl, c) /\ ~HasCol(mtbl, c))
    IN  [i \in 1..Len(added) |-> AddColumnOp(t, added[i], mtbl.cols[added[i]])]
        \o [i \in 1..Len(changed) |->
               CompareColumn(t, changed[i], mtbl.cols[changed[i]], ctbl.cols[changed[i]])]
        \o [i \in 1..Len(removed) |-> DropColumnOp(t, removed[i])]

\* produce_migrations(context, Database.metadata).upgrade_ops: CreateTableOp
\* for metadata tables the connection lacks, DropTableOp for tables of the
\* connection that metadata lacks, then one ModifyTableOps per table present
\* on both sides, in sorted(name) order, when it has column operations.
produce_migrations(meta, cschema) ==
    LET created == TablesWhere(LAMBDA t : meta[t].exists /\ ~cschema[t].exists)
        dropped == TablesWhere(LAMBDA t : cschema[t].exists /\ ~meta[t].exists)
        existing == TablesWhere(LAMBDA t : meta[t].exists /\ cschema[t].exists)
        modified == SelectSeq(existing, LAMBDA t :
                       CompareColumns(t, meta[t], cschema[t]) # << >>)
    IN  UpgradeOps(
          [i \in 1..Len(created) |-> CreateTableOp(created[i], meta[created[i]].cols)]
          \o [i \in 1..Len(dropped) |-> DropTableOp(dropped[i])]
          \o [i \in 1..Len(modified) |->
                ModifyTableOps(modified[i],
                               CompareColumns(modified[i], meta[modified[i]],
                                              cschema[modified[i]]))])

\* migrations.upgrade_ops.is_empty()
is_empty(upgrade_ops) == upgrade_ops.ops = << >>

\* Variant: the type is changed before the existing default is dropped.
add_using_clause_type_first(op) ==
    IF IsInteger(op.modify_type) /\ op.existing_type = "Text"
    THEN << [AlterColumnOp(op.table_name, op.column_name) EXCEPT
                !.modify_type = op.modify_type,
                !.existing_type = op.existing_type,
                !.existing_nullable = op.existing_nullable,
                !.existing_server_default = op.existing_server_default,
                !.postgresql_using = "TEXT_TO_INTEGER"] >>
    ELSE IF op.modify_type = "UUID" /\ IsInteger(op.existing_type)
    THEN << [AlterColumnOp(op.table_name, op.column_name) EXCEPT
                !.existing_type = op.existing_type,
                !.modify_type = op.modify_type,
                !.postgresql_using = "INTEGER_TO_UUID"],
            [AlterColumnOp(op.table_name, op.column_name) EXCEPT
                !.existing_type = op.existing_type,
                !.existing_server_default = "True",
                !.modify_server_default = "None"],
            [AlterColumnOp(op.table_name, op.column_name) EXCEPT
                !.existing_type = op.modify_type,
                !.existing_server_default = "None",
                !.modify_server_default = "gen_random_uuid()"] >>
    ELSE << op >>

\* add_using_clause(op).  The result is given as the list of operations the
\* caller invokes: the three-element list of the Integer -> UUID branch, and a
\* one-element list where the code returns a single operation.
add_using_clause(op) ==
    IF IsInteger(op.modify_type) /\ op.existing_type = "Text"
    THEN << [AlterColumnOp(op.table_name, op.column_name) EXCEPT
                !.modify_type = op.modify_type,
                !.existing_type = op.existing_type,
                !.existing_nullable = op.existing_nullable,
                !.existing_server_default = op.existing_server_default,
                !.postgresql_using = "TEXT_TO_INTEGER"] >>
    ELSE IF op.modify_type = "UUID" /\ IsInteger(op.existing_type)
    THEN << [AlterColumnOp(op.table_name, op.column_name) EXCEPT
                !.existing_type = op.existing_type,
                !.existing_server_default = "True",
                !.modify_server_default = "None"],
            [AlterColumnOp(op.table_name, op.column_name) EXCEPT
                !.existing_type = op.existing_type,
                !.modify_type = op.modify_type,
                !.postgresql_using = "INTEGER_TO_UUID"],
            [AlterColumnOp(op.table_name, op.column_name) EXCEPT
                !.existing_type = op.modify_type,
                !.existing_server_default = "None",
                !.modify_server_default = "gen_random_uuid()"] >>
    ELSE << op >>

\* The operations the loop body invokes for one dequeued leaf element.
Transformed(elem) ==
    IF elem.kind = "AlterColumnOp" THEN add_using_clause(elem) ELSE << elem >>

\* The invoke loop as a function of the operation tree: the leaves in
\* breadth-first order (grouping nodes replaced by their children at the end
\* of the queue), each leaf replaced by the operations invoked for it.
RECURSIVE Flatten(_)
Flatten(queue) ==
    IF queue = << >> THEN << >>
    ELSE IF HasOps(Head(queue)) THEN Flatten(Tail(queue) \o Head(queue).ops)
    ELSE << Head(queue) >> \o Flatten(Tail(queue))

Leaves(tree) == Flatten(<< tree >>)

PlanOf(tree) ==
    LET leaves == Leaves(tree)
    IN  Concat([i \in 1..Len(leaves) |-> Transformed(leaves[i])])

---------------------------------------------------------------------------
\* Effect of one invoked operation (its DDL) on the schema seen by the
\* connection.

AlterCol(col, op) ==
    [type |-> IF op.modify_type # "None" THEN op.modify_type ELSE col.type,
     nullable |-> IF op.modify_nullable # "None"
                  THEN op.modify_nullable = "True" ELSE col.nullable]

Apply(op, s) ==
    LET t == op.table_name IN
    CASE op.kind = "CreateTableOp" -> [s EXCEPT ![t] = Table(op.columns)]
      [] op.kind = "DropTableOp" -> [s EXCEPT ![t] = NoTable]
      [] op.kind = "AddColumnOp" -> [s EXCEPT ![t].cols[op.column_name] = op.column]
      [] op.kind = "DropColumnOp" -> [s EXCEPT ![t].cols[op.column_name] = NoCol]
      [] op.kind = "AlterColumnOp" ->
            [s EXCEPT ![t].cols[op.column_name] = AlterCol(@, op)]

\* PostgreSQL changes a column's type without a USING expression only where
\* an assignment cast exists: to the same type, or to text.
AutoCast(from, to) == from = to \/ to = "Text"

\* DDL that PostgreSQL rejects whatever the stored data is.
MustFail(op, s) ==
    LET t == op.table_name IN
    CASE op.kind = "CreateTableOp" -> s[t].exists
      [] op.kind = "DropTableOp" -> ~s[t].exists
      [] op.kind = "AddColumnOp" -> ~s[t].exists \/ HasCol(s[t], op.column_name)
      [] op.kind = "DropColumnOp" -> ~HasCol(s[t], op.column_name)
      [] op.kind = "AlterColumnOp" ->
            \/ ~HasCol(s[t], op.column_name)
            \/ /\ op.modify_type # "None"
               /\ op.postgresql_using = "None"
               /\ ~AutoCast(s[t].cols[op.column_name].type, op.modify_type)

---------------------------------------------------------------------------
\* Stored column values, and the USING expressions of add_using_clause as
\* PostgreSQL evaluates them on one stored value.  Text is a sequence of
\* one-character strings.

Digits == <<"0", "1", "2", "3", "4", "5", "6", "7", "8", "9">>

HexDigits == Digits \o <<"a", "b", "c", "d", "e", "f">>

\* The value of character c in an alphabet that contains it.
CharValue(alphabet, c) == (CHOOSE i \in DOMAIN alphabet : alphabet[i] = c) - 1

IsDigit(c) == c \in Range(Digits)

IsHexDigit(c) == c \in Range(HexDigits)

\* PostgreSQL's integer (int4), the type of ::integer and of an Integer column.
Int4Max == 2147483647

Int4Min == -Int4Max - 1

TextValue(s) == [type |-> "Text", null |-> FALSE, text |-> s, int |-> 0, error |-> "none"]

IntegerValue(n) ==
    [type |-> "Integer", null |-> FALSE, text |-> << >>, int |-> n, error |-> "none"]

UuidValue(s) == [type |-> "UUID", null |-> FALSE, text |-> s, int |-> 0, error |-> "none"]

\* A bigint value, held as the 16 hexadecimal digits of its 64-bit two's
\* complement form (ffffffffffffffff is -1).
BigIntegerValue(bits) ==
    [type |-> "BigInteger", null |-> FALSE, text |-> bits, int |-> 0, error |-> "none"]

NullValue(ty) == [type |-> ty, null |-> TRUE, text |-> << >>, int |-> 0, error |-> "none"]

\* The statement evaluating the expression on value v fails with SQLSTATE
\* condition err: the stored value stays as it is.
Raised(v, err) == [v EXCEPT !.error = err]

\* Variant: the regular expression is applied without the 'g' flag, so only
\* the first match is removed.
RegexpReplaceFirst(v) ==
    IF v.null \/ \A i \in DOMAIN v.text : IsDigit(v.text[i]) THEN v
    ELSE LET first == CHOOSE i \in DOMAIN v.text :
                          /\ ~IsDigit(v.text[i])
                          /\ \A j \in 1..(i - 1) : IsDigit(v.text[j])
         IN  TextValue(SubSeq(v.text, 1, first - 1)
                       \o SubSeq(v.text, first + 1, Len(v.text)))

\* REGEXP_REPLACE(col, '[^0-9]', '', 'g'): every character that is not a
\* digit is removed; NULL for NULL.
REGEXP_REPLACE(v) == IF v.null THEN v ELSE TextValue(SelectSeq(v.text, IsDigit))

\* NULLIF(a, b): NULL when a = b, else a.
NULLIF(a, b) == IF ~a.null /\ ~b.null /\ a.text = b.text THEN NullValue(a.type) ELSE a

\* COALESCE(a, b): the first argument that is not NULL.
COALESCE(a, b) == IF ~a.null THEN a ELSE b

\* pg_strtoint32 on the digits of a number, accumulating the negated value so
\* that Int4Min is reached without overflow: the negated value, or 1 when it
\* falls below Int4Min.
RECURSIVE NegatedDigits(_, _)
NegatedDigits(acc, ds) ==
    IF ds = << >> THEN acc
    ELSE LET d == CharValue(Digits, Head(ds)) IN
         IF acc < (Int4Min + d + 9) \div 10 THEN 1
         ELSE NegatedDigits(acc * 10 - d, Tail(ds))

\* text::integer (int4in): an optional sign followed by at least one digit
\* and nothing else; a value outside int4 is an error.
CastInteger(v) ==
    IF v.null THEN NullValue("Integer")
    ELSE LET neg == v.text # << >> /\ Head(v.text) = "-"
             ds == IF neg THEN Tail(v.text) ELSE v.text
             acc == NegatedDigits(0, ds)
         IN  IF ds = << >> \/ \E i \in DOMAIN ds : ~IsDigit(ds[i])
             THEN Raised(v, "invalid_text_representation")
             ELSE IF acc = 1 \/ (~neg /\ acc = Int4Min)
             THEN Raised(v, "numeric_value_out_of_range")
             ELSE IntegerValue(IF neg THEN acc ELSE -acc)

\* COALESCE(NULLIF(REGEXP_REPLACE(col, '[^0-9]', '', 'g'), ''), '0')::integer
TextToInteger(col) ==
    CastInteger(COALESCE(NULLIF(REGEXP_REPLACE(col), TextValue(<< >>)),
                         TextValue(<<"0">>)))

\* The hexadecimal digits of a natural number, without leading zeros.
RECURSIVE NatToHex(_)
NatToHex(n) ==
    IF n < 16 THEN << HexDigits[n + 1] >>
    ELSE Append(NatToHex(n \div 16), HexDigits[(n % 16) + 1])

\* The digits ds without their leading zeros.
RECURSIVE StripZeros(_)
StripZeros(ds) == IF ds # << >> /\ Head(ds) = "0" THEN StripZeros(Tail(ds)) ELSE ds

\* to_hex(integer) and to_hex(bigint): the hexadecimal digits of the value,
\* without leading zeros; a negative value is shown in the two's complement
\* form of its type (to_hex(-1) is 'ffffffff' for an integer and
\* 'ffffffffffffffff' for a bigint).
to_hex(v) ==
    IF v.null THEN NullValue("Text")
    ELSE IF v.type = "BigInteger"
    THEN TextValue(IF StripZeros(v.text) = << >> THEN <<"0">> ELSE StripZeros(v.text))
    ELSE IF v.int >= 0 THEN TextValue(NatToHex(v.int))
    ELSE LET low == NatToHex((v.int + Int4Max) + 1)
             pad == [i \in 1..(8 - Len(low)) |-> "0"] \o low
         IN  TextValue(<< HexDigits[CharValue(HexDigits, pad[1]) + 8 + 1] >> \o Tail(pad))

\* Variant: the text is filled on the right.
rpad(v, len, fill) ==
    IF v.null THEN v
    ELSE IF Len(v.text) >= len THEN TextValue(SubSeq(v.text, 1, len))
    ELSE TextValue(v.text \o [i \in 1..(len - Len(v.text)) |-> fill])

\* lpad(text, len, fill): the text filled on the left up to len characters,
\* or cut to its first len characters when it is longer.
lpad(v, len, fill) ==
    IF v.null THEN v
    ELSE IF Len(v.text) >= len THEN TextValue(SubSeq(v.text, 1, len))
    ELSE TextValue([i \in 1..(len - Len(v.text)) |-> fill] \o v.text)

\* a || b
TextConcat(a, b) == IF a.null \/ b.null THEN NullValue("Text") ELSE TextValue(a.text \o b.text)

\* '00000000-0000-0000-0000-'
UuidPrefix ==
    <<"0", "0", "0", "0", "0", "0", "0", "0", "-", "0", "0", "0", "0", "-",
      "0", "0", "0", "0", "-", "0", "0", "0", "0", "-">>

\* The length lpad fills to.
UuidPad == 12

\* text::uuid (uuid_in) for the hyphenated form 8-4-4-4-12 of hexadecimal
\* digits, the form the expression builds; anything else is an error.
CastUuid(v) ==
    IF v.null THEN NullValue("UUID")
    ELSE IF /\ Len(v.text) = 36
            /\ \A i \in DOMAIN v.text :
                  IF i \in {9, 14, 19, 24} THEN v.text[i] = "-" ELSE IsHexDigit(v.text[i])
         THEN UuidValue(v.text)
         ELSE Raised(v, "invalid_text_representation")

\* ('00000000-0000-0000-0000-' || lpad(to_hex(col), 12, '0'))::uuid
IntegerToUuid(col) ==
    CastUuid(TextConcat(TextValue(UuidPrefix), lpad(to_hex(col), UuidPad, "0")))

\* ALTER COLUMN ... TYPE ... of operation op on one stored value: the value
\* of the USING expression the operation carries; without one PostgreSQL
\* refuses a type change that has no assignment cast.
AlteredValue(op, v) ==
    LET r == CASE op.postgresql_using = "TEXT_TO_INTEGER" -> TextToInteger(v)
               [] op.postgresql_using = "INTEGER_TO_UUID" -> IntegerToUuid(v)
               [] OTHER -> Raised(v, "datatype_mismatch")
    IN  IF r.error # "none" THEN Raised(v, r.error) ELSE r

\* The operations invoked for a change of column x of table a from type
\* `from` to type `to`, as the diff yields it and add_using_clause rewrites it.
RetypeOps(from, to) ==
    add_using_clause(CompareColumn("a", "x", Col(to, TRUE), Col(from, TRUE)))

\* Bounds of the stored values considered.
MaxTextLen == 3

MaxStoredInt == 256

Chars == {"0", "1", "2", "7", "a", "-"}

\* Texts whose digits are at, beyond and (with leading zeros) within int4.
WideTexts ==
    { <<"2", "1", "4", "7", "4", "8", "3", "6", "4", "7">>,
      <<"2", "1", "4", "7", "4", "8", "3", "6", "4", "8">>,
      <<"1", "2", "3", "4", "5", "6", "7", "8", "9", "0", "1">>,
      <<"0", "0", "0", "0", "0", "0", "0", "0", "0", "0", "7">> }

Texts == (UNION {[1..n -> Chars] : n \in 0..MaxTextLen}) \cup WideTexts

StoredInts == (-MaxStoredInt..MaxStoredInt) \cup {Int4Min, -65536, 65535, 16777216, Int4Max}

Repeat(c, n) == [i \in 1..n |-> c]

\* Values of a bigint column: 0, 255, 2^48 - 1, 2^48, 2^48 + 1, the largest
\* value, -2 and -1.
StoredBigInts ==
    { Repeat("0", 16),
      Repeat("0", 14) \o <<"f", "f">>,
      Repeat("0", 4) \o Repeat("f", 12),
      <<"0", "0", "0", "1">> \o Repeat("0", 12),
      <<"0", "0", "0", "1">> \o Repeat("0", 11) \o <<"1">>,
      <<"7">> \o Repeat("f", 15),
      Repeat("f", 15) \o <<"e">>,
      Repeat("f", 16) }

StoredValues ==
    {TextValue(s) : s \in Texts} \cup {IntegerValue(n) : n \in StoredInts}
        \cup {BigIntegerValue(b) : b \in StoredBigInts}
        \cup {NullValue("Text"), NullValue("Integer")}

---------------------------------------------------------------------------
\* State.

VARIABLES
    pc,            \* position of each context in GenericDAL.__init__
    lock,          \* GenericDAL.lock: 0 when free, else the holding context
    initialized,   \* GenericDAL.initialized
    SyncEngine,    \* GenericDAL.SyncEngine: 0 for None, else the creating context
    SyncSession,   \* GenericDAL.SyncSession: 0 for None, else the creating context
    AsyncEngine,   \* GenericDAL.AsyncEngine
    AsyncSession,  \* GenericDAL.AsyncSession
    engines,       \* number of engines created so far, per kind
    metadata,      \* Database.metadata.tables
    db,            \* committed schema of the live database
    conn,          \* schema seen inside each context's migration connection
    trans,         \* state of each context's migration transaction
    stack,         \* the work queue of the invoke loop, per context
    pending,       \* operations of the dequeued element still to invoke
    run,           \* per context: what its __update_schema execution did
    runs,          \* number of __update_schema executions started
    registry,      \* the declared entities and their declaration order
    sequential,    \* whether the host constructs its instances one after another
    stored,        \* a value stored in a column before its type is changed
    cell           \* that value as the column holds it now

vars == <<pc, lock, initialized, SyncEngine, SyncSession, AsyncEngine, AsyncSession,
          engines, metadata, db, conn, trans, stack, pending, run, runs, registry,
          sequential, stored, cell>>

\* The variables of __init__ and __update_schema.
pipeline == <<pc, lock, initialized, SyncEngine, SyncSession, AsyncEngine, AsyncSession,
              engines, metadata, db, conn, trans, stack, pending, run, runs, registry,
              sequential>>

classvars == <<initialized, SyncEngine, SyncSession, AsyncEngine, AsyncSession>>

EmptyDb == [t \in TableNames |-> NoTable]

\* A database that drifted from DeclaredBoth: a.x is still a nullable text
\* column and b.y does not exist yet.
DriftedDb ==
    [a |-> Table([x |-> Col("Text", TRUE), y |-> Col("Text", TRUE)]),
     b |-> Table([x |-> Col("UUID", FALSE), y |-> NoCol])]

NoTree == [kind |-> "None", ops |-> << >>]

\* What one execution of __update_schema did: its rank among the executions,
\* the database when it started and when its transaction began, the operation
\* tree of the diff, the operations passed to operations.invoke, the numbers
\* of begin / commit / rollback calls, the place of a failure, whether
\* logger.error was called, the terminal state, and the exception that left
\* __init__.
NoRun ==
    [runNo |-> 0, dbAtStart |-> EmptyDb, dbAtBegin |-> EmptyDb, tree |-> NoTree,
     invoked |-> << >>, begins |-> 0, commits |-> 0, rollbacks |-> 0,
     failure |-> "none", logged |-> FALSE, outcome |-> "none", error |-> "none"]

\* What remains of it once __init__ has been left: the rank, the terminal
\* state with the failure that led to it, and the exception.
Result(r, err) ==
    [NoRun EXCEPT !.runNo = r.runNo, !.outcome = r.outcome, !.failure = r.failure,
                  !.error = err]

\* get_database_url: the dialect prefix is fixed, so GenericDAL.SyncEngine.name
\* is "postgresql" and use_batch is false.
EngineName == "postgresql"

use_batch == EngineName = "sqlite"

Ended == {"returned", "raised"}

Start(seq, regs, lives, values) ==
    /\ sequential = seq
    /\ registry \in regs
    /\ db \in lives
    /\ metadata = registry.tables
    /\ pc = [t \in Contexts |-> "idle"]
    /\ lock = 0
    /\ initialized = FALSE
    /\ SyncEngine = 0 /\ SyncSession = 0 /\ AsyncEngine = 0 /\ AsyncSession = 0
    /\ engines = [sync |-> 0, async |-> 0, migration |-> 0]
    /\ conn = [t \in Contexts |-> EmptyDb]
    /\ trans = [t \in Contexts |-> "none"]
    /\ stack = [t \in Contexts |-> << >>]
    /\ pending = [t \in Contexts |-> << >>]
    /\ run = [t \in Contexts |-> NoRun]
    /\ runs = 0
    /\ stored \in values
    /\ cell = stored

\* Racing contexts, over a fresh database and a drifted one.
Init ==
    Start(FALSE, {[tables |-> DeclaredBoth, order |-> <<"b", "a">>]}, {EmptyDb, DriftedDb},
          {NullValue("Text")})

\* One context after another, over every live database considered.
InitSeq == Start(TRUE, Registries, LiveSchemas, {NullValue("Text")})

---------------------------------------------------------------------------
\* GenericDAL.__init__: the two pool sections and the initialization guard.

\* A context calls GenericDAL().  A sequential host constructs its instances
\* one after another; a concurrent host constructs them from racing contexts.
Construct(t) ==
    /\ pc[t] = "idle"
    /\ sequential => \A u \in Contexts : u < t => pc[u] \in Ended
    /\ pc' = [pc EXCEPT ![t] = "chk_sync"]
    /\ UNCHANGED <<lock, classvars, engines, metadata, db, conn, trans, stack,
                   pending, run, runs, registry, sequential, stored, cell>>

\* if not GenericDAL.SyncSession:
CheckSync(t) ==
    /\ pc[t] = "chk_sync"
    /\ pc' = [pc EXCEPT ![t] = IF SyncSession = 0 THEN "acq_sync" ELSE "chk_async"]
    /\ UNCHANGED <<lock, classvars, engines, metadata, db, conn, trans, stack,
                   pending, run, runs, registry, sequential, stored, cell>>

\* with GenericDAL.lock: (entry)
AcquireSync(t) ==
    /\ pc[t] = "acq_sync"
    /\ lock = 0
    /\ lock' = t
    /\ pc' = [pc EXCEPT ![t] = "mk_sync"]
    /\ UNCHANGED <<classvars, engines, metadata, db, conn, trans, stack,
                   pending, run, runs, registry, sequential, stored, cell>>

\* SyncEngine = create_engine(...); SyncSession = sessionmaker(...); lock released
CreateSync(t) ==
    /\ pc[t] = "mk_sync"
    /\ SyncEngine' = t
    /\ SyncSession' = t
    /\ engines' = [engines EXCEPT !.sync = @ + 1]
    /\ lock' = 0
    /\ pc' = [pc EXCEPT ![t] = "chk_async"]
    /\ UNCHANGED <<initialized, AsyncEngine, AsyncSession, metadata, db, conn, trans,
                   stack, pending, run, runs, registry, sequential, stored, cell>>

\* if not GenericDAL.AsyncSession:
CheckAsync(t) ==
    /\ pc[t] = "chk_async"
    /\ pc' = [pc EXCEPT ![t] = IF AsyncSession = 0 THEN "acq_async" ELSE "chk_init"]
    /\ UNCHANGED <<lock, classvars, engines, metadata, db, conn, trans, stack,
                   pending, run, runs, registry, sequential, stored, cell>>

AcquireAsync(t) ==
    /\ pc[t] = "acq_async"
    /\ lock = 0
    /\ lock' = t
    /\ pc' = [pc EXCEPT ![t] = "mk_async"]
    /\ UNCHANGED <<classvars, engines, metadata, db, conn, trans, stack,
                   pending, run, runs, registry, sequential, stored, cell>>

CreateAsync(t) ==
    /\ pc[t] = "mk_async"
    /\ AsyncEngine' = t
    /\ AsyncSession' = t
    /\ engines' = [engines EXCEPT !.async = @ + 1]
    /\ lock' = 0
    /\ pc' = [pc EXCEPT ![t] = "chk_init"]
    /\ UNCHANGED <<initialized, SyncEngine, SyncSession, metadata, db, conn, trans,
                   stack, pending, run, runs, registry, sequential, stored, cell>>

\* if not GenericDAL.initialized:  (outer test; otherwise __init__ returns)
CheckInit(t) ==
    /\ pc[t] = "chk_init"
    /\ pc' = [pc EXCEPT ![t] = IF ~initialized THEN "acq_init" ELSE "returned"]
    /\ UNCHANGED <<lock, classvars, engines, metadata, db, conn, trans, stack,
                   pending, run, runs, registry, sequential, stored, cell>>

AcquireInit(t) ==
    /\ pc[t] = "acq_init"
    /\ lock = 0
    /\ lock' = t
    /\ pc' = [pc EXCEPT ![t] = "rechk_init"]
    /\ UNCHANGED <<classvars, engines, metadata, db, conn, trans, stack,
                   pending, run, runs, registry, sequential, stored, cell>>

\* if not GenericDAL.initialized:  (inner test, lock held) then
\* GenericDAL.__update_schema(self) is entered; otherwise the lock is released
\* and __init__ returns.
RecheckInit(t) ==
    /\ pc[t] = "rechk_init"
    /\ IF ~initialized
       THEN /\ pc' = [pc EXCEPT ![t] = "setup"]
            /\ runs' = runs + 1
            /\ run' = [run EXCEPT ![t].runNo = runs + 1, ![t].dbAtStart = db]
            /\ lock' = lock
       ELSE /\ pc' = [pc EXCEPT ![t] = "returned"]
            /\ lock' = 0
            /\ UNCHANGED <<run, runs>>
    /\ UNCHANGED <<classvars, engines, metadata, db, conn, trans, stack,
                   pending, registry, sequential, stored, cell>>

---------------------------------------------------------------------------
\* GenericDAL.__update_schema, executed with the lock held.

\* with GenericDAL.SyncSession() as session: SET client_encoding, CREATE
\* EXTENSION, commit.  No table or column changes.
Setup(t) ==
    /\ pc[t] = "setup"
    /\ pc' = [pc EXCEPT ![t] = "reflect"]
    /\ UNCHANGED <<lock, classvars, engines, metadata, db, conn, trans, stack,
                   pending, run, runs, registry, sequential, stored, cell>>

\* Database.metadata.reflect(GenericDAL.SyncEngine)
ReflectStep(t) ==
    /\ pc[t] = "reflect"
    /\ metadata' = Reflect(metadata, db)
    /\ pc' = [pc EXCEPT ![t] = "create_all"]
    /\ UNCHANGED <<lock, classvars, engines, db, conn, trans, stack,
                   pending, run, runs, registry, sequential, stored, cell>>

\* Database.metadata.create_all(GenericDAL.SyncEngine): committed on its own.
CreateAllStep(t) ==
    /\ pc[t] = "create_all"
    /\ db' = CreateAll(metadata, db)
    /\ pc' = [pc EXCEPT ![t] = "connect"]
    /\ UNCHANGED <<lock, classvars, engines, metadata, conn, trans, stack,
                   pending, run, runs, registry, sequential, stored, cell>>

\* with create_engine(...).connect() as conn: trans = conn.begin()
Begin(t) ==
    /\ pc[t] = "connect"
    /\ engines' = [engines EXCEPT !.migration = @ + 1]
    /\ conn' = [conn EXCEPT ![t] = db]
    /\ trans' = [trans EXCEPT ![t] = "active"]
    /\ run' = [run EXCEPT ![t].begins = @ + 1, ![t].dbAtBegin = db]
    /\ pc' = [pc EXCEPT ![t] = "diff"]
    /\ UNCHANGED <<lock, classvars, metadata, db, stack, pending, runs,
                   registry, sequential, stored, cell>>

\* Variant: an empty diff leaves __update_schema without calling commit.
DiffSkipsCommit(t) ==
    /\ pc[t] = "diff"
    /\ LET migrations == produce_migrations(metadata, conn[t]) IN
       /\ run' = [run EXCEPT ![t].tree = migrations]
       /\ IF ~is_empty(migrations)
          THEN /\ stack' = [stack EXCEPT ![t] = << migrations >>]
               /\ pc' = [pc EXCEPT ![t] = "loop"]
          ELSE /\ stack' = stack
               /\ pc' = [pc EXCEPT ![t] = "seed"]
    /\ UNCHANGED <<lock, classvars, engines, metadata, db, conn, trans,
                   pending, runs, registry, sequential, stored, cell>>

\* migrations = produce_migrations(context, Database.metadata); when
\* upgrade_ops is empty the loop is skipped and trans.commit() follows.
Diff(t) ==
    /\ pc[t] = "diff"
    /\ LET migrations == produce_migrations(metadata, conn[t]) IN
       /\ run' = [run EXCEPT ![t].tree = migrations]
       /\ IF ~is_empty(migrations)
          THEN /\ stack' = [stack EXCEPT ![t] = << migrations >>]
               /\ pc' = [pc EXCEPT ![t] = "loop"]
          ELSE /\ stack' = stack
               /\ pc' = [pc EXCEPT ![t] = "commit"]
    /\ UNCHANGED <<lock, classvars, engines, metadata, db, conn, trans,
                   pending, runs, registry, sequential, stored, cell>>

\* MigrationContext.configure / produce_migrations raises while reading the
\* live metadata: inside the try block, so caught by "except Exception".
DiffRaises(t) ==
    /\ pc[t] = "diff"
    /\ run' = [run EXCEPT ![t].failure = "diff"]
    /\ pc' = [pc EXCEPT ![t] = "except"]
    /\ UNCHANGED <<lock, classvars, engines, metadata, db, conn, trans, stack,
                   pending, runs, registry, sequential, stored, cell>>

\* Position after one loop step: "while stack" ends when the queue is empty
\* and every operation of the dequeued element has been invoked.
AfterStep(stk, pnd) == IF stk = << >> /\ pnd = << >> THEN "commit" ELSE "loop"

\* Variant: elem = stack.pop(), the last element instead of the first.
DequeueLast(t) ==
    /\ pc[t] = "loop"
    /\ pending[t] = << >>
    /\ stack[t] # << >>
    /\ LET elem == stack[t][Len(stack[t])]
           rest == SubSeq(stack[t], 1, Len(stack[t]) - 1)
           stk == IF HasOps(elem) THEN rest \o elem.ops ELSE rest
           pnd == IF HasOps(elem) THEN << >> ELSE Transformed(elem)
       IN  /\ stack' = [stack EXCEPT ![t] = stk]
           /\ pending' = [pending EXCEPT ![t] = pnd]
           /\ pc' = [pc EXCEPT ![t] = AfterStep(stk, pnd)]
    /\ UNCHANGED <<lock, classvars, engines, metadata, db, conn, trans, run, runs,
                   registry, sequential, stored, cell>>

\* Variant: stack = elem.ops, the queue is replaced by the children of a
\* grouping node instead of being extended with them.
DequeueReplace(t) ==
    /\ pc[t] = "loop"
    /\ pending[t] = << >>
    /\ stack[t] # << >>
    /\ LET elem == Head(stack[t])
           stk == IF HasOps(elem) THEN elem.ops ELSE Tail(stack[t])
           pnd == IF HasOps(elem) THEN << >> ELSE Transformed(elem)
       IN  /\ stack' = [stack EXCEPT ![t] = stk]
           /\ pending' = [pending EXCEPT ![t] = pnd]
           /\ pc' = [pc EXCEPT ![t] = AfterStep(stk, pnd)]
    /\ UNCHANGED <<lock, classvars, engines, metadata, db, conn, trans, run, runs,
                   registry, sequential, stored, cell>>

\* elem = stack.pop(0): a batch table (sqlite only), a grouping node whose
\* children are appended to the queue, or a leaf whose operations (after
\* add_using_clause for an AlterColumnOp) are to be invoked.
Dequeue(t) ==
    /\ pc[t] = "loop"
    /\ pending[t] = << >>
    /\ stack[t] # << >>
    /\ LET elem == Head(stack[t])
           stk == IF ~(use_batch /\ elem.kind = "ModifyTableOps") /\ HasOps(elem)
                  THEN Tail(stack[t]) \o elem.ops
                  ELSE Tail(stack[t])
           pnd == IF use_batch /\ elem.kind = "ModifyTableOps" THEN elem.ops
                  ELSE IF HasOps(elem) THEN << >>
                  ELSE Transformed(elem)
       IN  /\ stack' = [stack EXCEPT ![t] = stk]
           /\ pending' = [pending EXCEPT ![t] = pnd]
           /\ pc' = [pc EXCEPT ![t] = AfterStep(stk, pnd)]
    /\ UNCHANGED <<lock, classvars, engines, metadata, db, conn, trans, run, runs,
                   registry, sequential, stored, cell>>

\* Variant: DDL is committed as it is executed (no transactional DDL).
InvokeAutocommit(t) ==
    /\ pc[t] = "loop"
    /\ pending[t] # << >>
    /\ LET op == Head(pending[t]) IN
       /\ ~MustFail(op, conn[t])
       /\ conn' = [conn EXCEPT ![t] = Apply(op, conn[t])]
       /\ db' = Apply(op, conn[t])
       /\ run' = [run EXCEPT ![t].invoked = Append(@, op)]
       /\ pending' = [pending EXCEPT ![t] = Tail(@)]
       /\ pc' = [pc EXCEPT ![t] = AfterStep(stack[t], Tail(pending[t]))]
    /\ UNCHANGED <<lock, classvars, engines, metadata, trans, stack, runs,
                   registry, sequential, stored, cell>>

\* operations.invoke(op) succeeds: its DDL takes effect inside the transaction.
Invoke(t) ==
    /\ pc[t] = "loop"
    /\ pending[t] # << >>
    /\ LET op == Head(pending[t]) IN
       /\ ~MustFail(op, conn[t])
       /\ conn' = [conn EXCEPT ![t] = Apply(op, conn[t])]
       /\ run' = [run EXCEPT ![t].invoked = Append(@, op)]
       /\ pending' = [pending EXCEPT ![t] = Tail(@)]
       /\ pc' = [pc EXCEPT ![t] = AfterStep(stack[t], Tail(pending[t]))]
    /\ UNCHANGED <<lock, classvars, engines, metadata, db, trans, stack, runs,
                   registry, sequential, stored, cell>>

\* Variant: the failure of one invocation is caught inside the loop, which
\* goes on with the next operation.
InvokeRaisesContinues(t) ==
    /\ pc[t] = "loop"
    /\ pending[t] # << >>
    /\ run' = [run EXCEPT ![t].invoked = Append(@, Head(pending[t])),
                          ![t].failure = "ddl"]
    /\ pending' = [pending EXCEPT ![t] = Tail(@)]
    /\ pc' = [pc EXCEPT ![t] = AfterStep(stack[t], Tail(pending[t]))]
    /\ UNCHANGED <<lock, classvars, engines, metadata, db, conn, trans, stack,
                   runs, registry, sequential, stored, cell>>

\* operations.invoke(op) raises (the DDL is rejected): control leaves the loop
\* for the except clause.
InvokeRaises(t) ==
    /\ pc[t] = "loop"
    /\ pending[t] # << >>
    /\ run' = [run EXCEPT ![t].invoked = Append(@, Head(pending[t])),
                          ![t].failure = "ddl"]
    /\ pc' = [pc EXCEPT ![t] = "except"]
    /\ UNCHANGED <<lock, classvars, engines, metadata, db, conn, trans, stack,
                   pending, runs, registry, sequential, stored, cell>>

\* trans.commit() succeeds; "Schema updated", the connection is closed and
\* __update_schema returns.
Commit(t) ==
    /\ pc[t] = "commit"
    /\ db' = conn[t]
    /\ trans' = [trans EXCEPT ![t] = "committed"]
    /\ run' = [run EXCEPT ![t].commits = @ + 1, ![t].outcome = "applied"]
    /\ conn' = [conn EXCEPT ![t] = EmptyDb]
    /\ stack' = [stack EXCEPT ![t] = << >>]
    /\ pending' = [pending EXCEPT ![t] = << >>]
    /\ pc' = [pc EXCEPT ![t] = "seed"]
    /\ UNCHANGED <<lock, classvars, engines, metadata, runs, registry, sequential, stored, cell>>

\* trans.commit() raises: caught by "except Exception".
CommitRaises(t) ==
    /\ pc[t] = "commit"
    /\ run' = [run EXCEPT ![t].commits = @ + 1, ![t].failure = "commit"]
    /\ pc' = [pc EXCEPT ![t] = "except"]
    /\ UNCHANGED <<lock, classvars, engines, metadata, db, conn, trans, stack,
                   pending, runs, registry, sequential, stored, cell>>

\* except Exception as e: trans.rollback(); logger.error(...); then "Schema
\* updated", the connection is closed and __update_schema returns.
Rollback(t) ==
    /\ pc[t] = "except"
    /\ trans' = [trans EXCEPT ![t] = "rolled_back"]
    /\ run' = [run EXCEPT ![t].rollbacks = @ + 1, ![t].logged = TRUE,
                          ![t].outcome = "aborted"]
    /\ conn' = [conn EXCEPT ![t] = EmptyDb]
    /\ stack' = [stack EXCEPT ![t] = << >>]
    /\ pending' = [pending EXCEPT ![t] = << >>]
    /\ pc' = [pc EXCEPT ![t] = "seed"]
    /\ UNCHANGED <<lock, classvars, engines, metadata, db, runs, registry, sequential, stored, cell>>

\* GenericDAL.__seed_database(self): makes a session and does nothing with it
\* (no database call).
Seed(t) ==
    /\ pc[t] = "seed"
    /\ pc' = [pc EXCEPT ![t] = "init_cron"]
    /\ UNCHANGED <<lock, classvars, engines, metadata, db, conn, trans, stack,
                   pending, run, runs, registry, sequential, stored, cell>>

\* Variant: the exception leaves __init__ with the lock still held (the lock
\* taken with acquire(), without a try/finally around the block).
InitCronKeepsLock(t) ==
    /\ pc[t] = "init_cron"
    /\ run' = [run EXCEPT ![t] = Result(@, "AttributeError")]
    /\ pc' = [pc EXCEPT ![t] = "raised"]
    /\ UNCHANGED <<lock, classvars, engines, metadata, db, conn, trans, stack,
                   pending, runs, registry, sequential, stored, cell>>

\* GenericDAL.__init_cron(self): class GenericDAL defines no __init_cron, so
\* the attribute lookup raises AttributeError.  The exception leaves the
\* "with GenericDAL.lock" block, which releases the lock, and propagates out
\* of __init__; "GenericDAL.initialized = True" is not reached.
InitCron(t) ==
    /\ pc[t] = "init_cron"
    /\ run' = [run EXCEPT ![t] = Result(@, "AttributeError")]
    /\ lock' = 0
    /\ pc' = [pc EXCEPT ![t] = "raised"]
    /\ UNCHANGED <<classvars, engines, metadata, db, conn, trans, stack,
                   pending, runs, registry, sequential, stored, cell>>

\* A database call outside the try block raises (the server is unreachable,
\* reflection or create_all fails): the exception leaves the "with
\* GenericDAL.lock" block and propagates out of __init__.
DbCallRaises(t) ==
    /\ pc[t] \in {"setup", "reflect", "create_all", "connect"}
    /\ run' = [run EXCEPT ![t] = Result(@, "OperationalError")]
    /\ lock' = 0
    /\ pc' = [pc EXCEPT ![t] = "raised"]
    /\ UNCHANGED <<classvars, engines, metadata, db, conn, trans, stack,
                   pending, runs, registry, sequential, stored, cell>>

---------------------------------------------------------------------------

Next ==
    \E t \in Contexts :
        \/ Construct(t)
        \/ CheckSync(t) \/ AcquireSync(t) \/ CreateSync(t)
        \/ CheckAsync(t) \/ AcquireAsync(t) \/ CreateAsync(t)
        \/ CheckInit(t) \/ AcquireInit(t) \/ RecheckInit(t)
        \/ Setup(t) \/ ReflectStep(t) \/ CreateAllStep(t)
        \/ Begin(t) \/ Diff(t) \/ DiffRaises(t)
        \/ Dequeue(t) \/ Invoke(t) \/ InvokeRaises(t)
        \/ Commit(t) \/ CommitRaises(t) \/ Rollback(t)
        \/ Seed(t) \/ InitCron(t) \/ DbCallRaises(t)

Spec == Init /\ [][Next]_vars

SpecSeq == InitSeq /\ [][Next]_vars

\* The steps of a context that has called GenericDAL(): the thread running
\* the constructor is scheduled again and again, and each database call
\* returns or raises.
Proceed(t) ==
    \/ CheckSync(t) \/ AcquireSync(t) \/ CreateSync(t)
    \/ CheckAsync(t) \/ AcquireAsync(t) \/ CreateAsync(t)
    \/ CheckInit(t) \/ AcquireInit(t) \/ RecheckInit(t)
    \/ Setup(t) \/ ReflectStep(t) \/ CreateAllStep(t)
    \/ Begin(t) \/ Diff(t) \/ DiffRaises(t)
    \/ Dequeue(t) \/ Invoke(t) \/ InvokeRaises(t)
    \/ Commit(t) \/ CommitRaises(t) \/ Rollback(t)
    \/ Seed(t) \/ InitCron(t) \/ DbCallRaises(t)

\* Racing contexts under a fair scheduler.
SpecFair == Init /\ [][Next]_vars /\ \A t \in Contexts : WF_vars(Proceed(t))

---------------------------------------------------------------------------
\* The type changes that add_using_clause rewrites, executed by PostgreSQL on
\* one stored value of the column.

InitCast == Start(TRUE, {[tables |-> DeclaredOne, order |-> <<"a">>]}, {EmptyDb}, StoredValues)

\* The operations invoked for a Text -> Integer change: the one that changes
\* the type converts the stored value with its USING expression.
AlterTextToInteger ==
    /\ cell = stored
    /\ stored.type = "Text"
    /\ \E i \in DOMAIN RetypeOps("Text", "Integer") :
          LET op == RetypeOps("Text", "Integer")[i] IN
          /\ op.modify_type = "Integer"
          /\ cell' = AlteredValue(op, cell)
    /\ UNCHANGED <<pipeline, stored>>

\* The operations invoked for an Integer -> UUID change: dropping and setting
\* the default leave the stored value, the one that changes the type converts
\* it with its USING expression.
AlterIntegerToUuid ==
    /\ cell = stored
    /\ IsInteger(stored.type)
    /\ \E i \in DOMAIN RetypeOps(stored.type, "UUID") :
          LET op == RetypeOps(stored.type, "UUID")[i] IN
          /\ op.modify_type = "UUID"
          /\ cell' = AlteredValue(op, cell)
    /\ UNCHANGED <<pipeline, stored>>

NextCast == AlterTextToInteger \/ AlterIntegerToUuid

SpecCast == InitCast /\ [][NextCast]_vars

---------------------------------------------------------------------------
\* Properties.

IsPrefix(s, q) == Len(s) <= Len(q) /\ \A i \in 1..Len(s) : s[i] = q[i]

\* The context is still inside the guarded block, after its migration
\* transaction has ended.
AfterTxn(t) == pc[t] \in {"seed", "init_cron"}

\* The diff of the context's run has been computed.
HasTree(t) == run[t].tree.kind = "UpgradeOps"

Declared(tn) == registry.tables[tn].exists

\* C1: however many contexts construct GenericDAL, __update_schema (live
\* introspection and migration apply) is executed at most once in the process.
C1_PipelineRunsOnce == runs <= 1

\* C2: once a construction has left its guarded block with its migration
\* applied or aborted, the initialized flag is set and no later construction
\* has executed the pipeline again.
C2_FlagSetAfterFirstConstruction ==
    \A t \in Contexts :
        (pc[t] \in Ended /\ run[t].outcome \in {"applied", "aborted"})
            => /\ initialized
               /\ \A u \in Contexts : run[u].runNo <= run[t].runNo

\* C3: when an operation of the plan fails, whatever its position, the run is
\* rolled back and the live schema is the one the transaction started from:
\* none of the operations invoked before the failure is applied.
C3_Atomicity ==
    \A t \in Contexts :
        (AfterTxn(t) /\ run[t].outcome = "aborted") => db = run[t].dbAtBegin

\* C3 witness: a plan of at least two operations failed after its first
\* operation had been invoked, and the run has been rolled back.
C3_Witness ==
    \E t \in Contexts :
        /\ AfterTxn(t)
        /\ run[t].failure = "ddl"
        /\ run[t].outcome = "aborted"
        /\ Len(PlanOf(run[t].tree)) > 1
        /\ Len(run[t].invoked) > 1

\* C4: when the pipeline has been applied by a first run, the second run in
\* sequence against the same database computes an empty operation tree.
C4_SecondRunEmpty ==
    \A t, u \in Contexts :
        (/\ run[t].runNo = 1 /\ run[t].outcome = "applied"
         /\ run[u].runNo = 2 /\ HasTree(u))
            => is_empty(run[u].tree)

\* C5: after a run has committed, every column of every declared table
\* exists in the live schema with the declared type.
C5_ColumnParity ==
    \A t \in Contexts :
        (AfterTxn(t) /\ run[t].outcome = "applied") =>
            \A tn \in TableNames : \A c \in ColNames :
                HasCol(registry.tables[tn], c) =>
                    /\ HasCol(db[tn], c)
                    /\ db[tn].cols[c].type = registry.tables[tn].cols[c].type

\* C5 witness: a committed run that added a column and changed a column type.
C5_Witness ==
    \E t \in Contexts :
        /\ AfterTxn(t)
        /\ run[t].outcome = "applied"
        /\ \E i \in DOMAIN run[t].invoked : run[t].invoked[i].kind = "AddColumnOp"
        /\ \E i \in DOMAIN run[t].invoked :
              /\ run[t].invoked[i].kind = "AlterColumnOp"
              /\ run[t].invoked[i].modify_type # "None"

\* The operations of a tree that reference table tn.
OpsOn(tree, tn) == {i \in DOMAIN Leaves(tree) : Leaves(tree)[i].table_name = tn}

\* C6 as stated: for a declared table absent from the live database when the
\* pipeline starts, the plan holds exactly one CreateTable for it and no other
\* operation that references it.
C6_OneCreateTable ==
    \A t \in Contexts : \A tn \in TableNames :
        (HasTree(t) /\ Declared(tn) /\ ~run[t].dbAtStart[tn].exists) =>
            /\ Cardinality(OpsOn(run[t].tree, tn)) = 1
            /\ \A i \in OpsOn(run[t].tree, tn) :
                  Leaves(run[t].tree)[i].kind = "CreateTableOp"

\* C6 as amended: a declared table absent from the live database when the
\* pipeline starts has been created by create_all, with its declared columns,
\* before the transaction begins, and the plan holds no operation that
\* references it (no CreateTable either).
C6_CreatedBeforePlan ==
    \A t \in Contexts : \A tn \in TableNames :
        (HasTree(t) /\ Declared(tn) /\ ~run[t].dbAtStart[tn].exists) =>
            /\ run[t].dbAtBegin[tn] = registry.tables[tn]
            /\ OpsOn(run[t].tree, tn) = {}

\* C6 witness: the diff has been computed, non-empty, in a run that started
\* with a declared table absent.
C6_Witness ==
    \E t \in Contexts : \E tn \in TableNames :
        /\ HasTree(t) /\ Declared(tn) /\ ~run[t].dbAtStart[tn].exists
        /\ ~is_empty(run[t].tree)

\* C7: no DropTable appears in the plan nor is invoked, whatever live tables
\* are absent from the declared set.
C7_NoDropTable ==
    \A t \in Contexts :
        /\ \A i \in DOMAIN Leaves(run[t].tree) :
              Leaves(run[t].tree)[i].kind # "DropTableOp"
        /\ \A i \in DOMAIN run[t].invoked : run[t].invoked[i].kind # "DropTableOp"

\* C7 witness: a non-empty plan computed while a live table is not declared.
C7_Witness ==
    \E t \in Contexts : \E tn \in TableNames :
        /\ HasTree(t) /\ ~is_empty(run[t].tree)
        /\ ~Declared(tn) /\ run[t].dbAtBegin[tn].exists
        /\ Len(run[t].invoked) > 0

\* C8 as stated: a run whose diff is empty opens no transaction: no begin, no
\* commit, no rollback.
C8_NoTransaction ==
    \A t \in Contexts :
        (HasTree(t) /\ is_empty(run[t].tree)) =>
            run[t].begins = 0 /\ run[t].commits = 0 /\ run[t].rollbacks = 0

\* C8 as amended: a run whose diff is empty has begun one transaction (before
\* the diff), invokes no operation in it and calls commit once; the rollback
\* is called only if that commit raises; the live schema is left unchanged.
C8_EmptyDiffCommitsEmptyTransaction ==
    \A t \in Contexts :
        (HasTree(t) /\ is_empty(run[t].tree)) =>
            /\ run[t].begins = 1
            /\ run[t].invoked = << >>
            /\ db = run[t].dbAtBegin
            /\ AfterTxn(t) =>
                  /\ run[t].commits = 1
                  /\ \/ run[t].outcome = "applied" /\ run[t].rollbacks = 0
                     \/ /\ run[t].outcome = "aborted" /\ run[t].rollbacks = 1
                        /\ run[t].failure = "commit"

\* C8 witness: a run with an empty diff has committed.
C8_Witness ==
    \E t \in Contexts :
        /\ AfterTxn(t) /\ HasTree(t) /\ is_empty(run[t].tree)
        /\ run[t].outcome = "applied"

\* C9: a run with a non-empty plan begins exactly one transaction, invokes the
\* operations of the plan in plan order while the transaction is active, and
\* ends either applied (one commit, after every operation was invoked, no
\* rollback) or aborted (one rollback, after a failure).
C9_OneTransaction ==
    \A t \in Contexts :
        (HasTree(t) /\ ~is_empty(run[t].tree)) =>
            /\ run[t].begins = 1
            /\ IsPrefix(run[t].invoked, PlanOf(run[t].tree))
            /\ pc[t] = "loop" => trans[t] = "active"
            /\ AfterTxn(t) =>
                  \/ /\ run[t].outcome = "applied" /\ trans[t] = "committed"
                     /\ run[t].failure = "none"
                     /\ run[t].commits = 1 /\ run[t].rollbacks = 0
                     /\ run[t].invoked = PlanOf(run[t].tree)
                  \/ /\ run[t].outcome = "aborted" /\ trans[t] = "rolled_back"
                     /\ run[t].failure # "none"
                     /\ run[t].rollbacks = 1
                     /\ run[t].commits = IF run[t].failure = "commit" THEN 1 ELSE 0

\* C9 witness: a plan of several operations over two tables has been applied.
C9_Witness ==
    \E t \in Contexts :
        /\ AfterTxn(t) /\ run[t].outcome = "applied"
        /\ Len(run[t].tree.ops) > 1
        /\ Len(run[t].invoked) > 2

\* C10: when a DDL operation of the plan fails, the transaction is rolled
\* back, the failure is logged, and no exception leaves the constructor: the
\* construction completes.
C10_DdlFailureSwallowed ==
    \A t \in Contexts :
        run[t].failure = "ddl" =>
            /\ AfterTxn(t) =>
                  run[t].rollbacks = 1 /\ run[t].logged /\ run[t].outcome = "aborted"
            /\ pc[t] # "raised"

\* C11: a failure of the database while the live metadata is read for the
\* diff is not handled inside the constructor: the construction does not go
\* on to the seeding step after it, and the exception that leaves __init__ is
\* the database error.
C11_IntrospectionFailurePropagates ==
    \A t \in Contexts :
        run[t].failure = "diff" =>
            /\ ~AfterTxn(t)
            /\ pc[t] = "raised" => run[t].error = "OperationalError"

---------------------------------------------------------------------------
\* Properties of the casting expressions.

\* The digits ds, most significant first, denote the number n in the base of
\* the alphabet; no digit denotes 0.
RECURSIVE Denotes(_, _, _)
Denotes(alphabet, ds, n) ==
    IF ds = << >> THEN n = 0
    ELSE /\ n >= 0
         /\ n % Len(alphabet) = CharValue(alphabet, ds[Len(ds)])
         /\ Denotes(alphabet, SubSeq(ds, 1, Len(ds) - 1), n \div Len(alphabet))

\* The digit characters of a text, in order.
DigitsOf(s) == SelectSeq(s, IsDigit)

Int4MaxDigits == <<"2", "1", "4", "7", "4", "8", "3", "6", "4", "7">>

\* The decimal digits ds denote a number of at most 2147483647.
FitsInt4(ds) ==
    LET s == StripZeros(ds) IN
    \/ Len(s) < Len(Int4MaxDigits)
    \/ /\ Len(s) = Len(Int4MaxDigits)
       /\ \/ s = Int4MaxDigits
          \/ \E i \in DOMAIN s :
                /\ CharValue(Digits, s[i]) < CharValue(Digits, Int4MaxDigits[i])
                /\ \A j \in 1..(i - 1) : s[j] = Int4MaxDigits[j]

\* A stored text value has been through the Text -> Integer type change.
TextAltered == stored.type = "Text" /\ ~stored.null /\ cell # stored

\* C13 as stated: for every stored text value the casting expression yields
\* the integer denoted by its digit characters in order, 0 when it has none.
C13_DigitsOfEveryText ==
    TextAltered =>
        /\ cell.error = "none" /\ cell.type = "Integer" /\ ~cell.null
        /\ Denotes(Digits, DigitsOf(stored.text), cell.int)

\* C13 as amended: for every stored text value whose digit characters denote
\* a number of at most 2147483647, the casting expression yields that integer
\* (0 when no digit remains; "12a" gives 12, "" gives 0, "007" gives 7); for
\* any other text it raises numeric_value_out_of_range and the stored value
\* is left as it is.
C13_DigitsOfTextWithinInt4 ==
    TextAltered =>
        /\ IF FitsInt4(DigitsOf(stored.text))
           THEN /\ cell.error = "none" /\ cell.type = "Integer" /\ ~cell.null
                /\ Denotes(Digits, DigitsOf(stored.text), cell.int)
           ELSE cell = Raised(stored, "numeric_value_out_of_range")
        /\ DigitsOf(stored.text) = << >> => cell = IntegerValue(0)
        /\ stored.text = <<"1", "2", "a">> => cell = IntegerValue(12)
        /\ stored.text = <<"0", "0", "7">> => cell = IntegerValue(7)

\* C13 witness: the text "12a" has been converted to the integer 12.
C13_Witness == stored = TextValue(<<"1", "2", "a">>) /\ cell = IntegerValue(12)

\* A stored integer value has been through the Integer -> UUID type change.
IntegerAltered == stored.type = "Integer" /\ ~stored.null /\ cell # stored

\* The characters of the UUID after the fixed prefix.
LastDigits == SubSeq(cell.text, Len(UuidPrefix) + 1, Len(cell.text))

\* The column holds a UUID made of the fixed prefix and 12 hexadecimal digits.
PrefixedUuid ==
    /\ cell.error = "none" /\ cell.type = "UUID" /\ ~cell.null
    /\ Len(cell.text) = Len(UuidPrefix) + 12
    /\ SubSeq(cell.text, 1, Len(UuidPrefix)) = UuidPrefix
    /\ \A i \in DOMAIN LastDigits : IsHexDigit(LastDigits[i])

\* C14 as stated: for every stored integer value the casting expression
\* yields the fixed prefix followed by exactly 12 hexadecimal digits that
\* denote that integer.
C14_HexOfEveryInteger ==
    IntegerAltered =>
        /\ PrefixedUuid
        /\ Denotes(HexDigits, LastDigits, stored.int)

\* C14 as amended: for every stored 32-bit integer value the casting
\* expression yields the fixed prefix followed by exactly 12 hexadecimal
\* digits; they denote the integer when it is not negative (255 gives
\* ...-0000000000ff), and the integer plus 2^32, its two's complement form
\* (-1 gives ...-0000ffffffff), when it is negative.
C14_HexOfInt4 ==
    IntegerAltered =>
        /\ PrefixedUuid
        /\ IF stored.int >= 0
           THEN Denotes(HexDigits, LastDigits, stored.int)
           ELSE LET top == CharValue(HexDigits, LastDigits[5]) IN
                /\ SubSeq(LastDigits, 1, 4) = <<"0", "0", "0", "0">>
                /\ top >= 8
                /\ Denotes(HexDigits,
                           << HexDigits[top - 8 + 1] >> \o SubSeq(LastDigits, 6, 12),
                           (stored.int + Int4Max) + 1)
        /\ stored.int = 255 =>
              LastDigits = <<"0", "0", "0", "0", "0", "0", "0", "0", "0", "0", "f", "f">>

\* C14 witness: the integer 255 has been converted to a UUID ending in ff.
C14_Witness ==
    /\ stored = IntegerValue(255)
    /\ cell.type = "UUID"
    /\ SubSeq(cell.text, 35, 36) = <<"f", "f">>

\* What the Integer -> UUID type change makes of value w of a column of the
\* stored value's type.
UuidOf(w) ==
    LET ops == RetypeOps(stored.type, "UUID")
        i == CHOOSE i \in DOMAIN ops : ops[i].modify_type = "UUID"
    IN  AlteredValue(ops[i], w)

\* C22: the integer-to-UUID casting expression is injective on the values
\* an Integer-typed column can hold, negative values and values of the wide
\* integer type included: no other value of the column's type is converted
\* to the UUID that the stored value has been converted to.
C22_Injective ==
    (IsInteger(stored.type) /\ ~stored.null /\ cell.type = "UUID") =>
        \A w \in StoredValues :
            (w.type = stored.type /\ ~w.null /\ UuidOf(w) = cell) => w = stored

---------------------------------------------------------------------------
\* Properties of the transformer and of the invoke loop.

\* The leaf is an AlterColumn operation changing type `from` to type `to`.
Retypes(leaf, from, to) ==
    leaf.kind = "AlterColumnOp" /\ leaf.existing_type = from /\ leaf.modify_type = to

SameColumn(op, leaf) ==
    /\ op.kind = "AlterColumnOp"
    /\ op.table_name = leaf.table_name
    /\ op.column_name = leaf.column_name

\* op changes the type as the leaf does, with casting expression `using`.
ChangesType(op, leaf, using) ==
    /\ SameColumn(op, leaf)
    /\ op.modify_type = leaf.modify_type
    /\ op.postgresql_using = using
    /\ op.modify_server_default = "False"

\* op drops the default of the leaf's column and does nothing else.
DropsDefault(op, leaf) ==
    /\ SameColumn(op, leaf)
    /\ op.modify_server_default = "None"
    /\ op.modify_type = "None" /\ op.postgresql_using = "None"

\* op sets the default of the leaf's column to gen_random_uuid() and does
\* nothing else.
SetsDefault(op, leaf) ==
    /\ SameColumn(op, leaf)
    /\ op.modify_server_default = "gen_random_uuid()"
    /\ op.modify_type = "None" /\ op.postgresql_using = "None"

\* The invoked operations are, leaf after leaf, what the transformer is to
\* give for the leaves: one type change with the casting expression for a
\* Text -> Integer leaf; drop default, type change with the casting
\* expression, set default, for an Integer -> UUID leaf; the leaf itself for
\* any other leaf.  `whole` tells whether every leaf has been invoked or the
\* invocations may stop early.
RECURSIVE ShapedAs(_, _, _)
ShapedAs(leaves, invoked, whole) ==
    IF invoked = << >> THEN leaves = << >> \/ ~whole
    ELSE /\ leaves # << >>
         /\ LET leaf == Head(leaves)
                n == Len(invoked)
            IN  IF Retypes(leaf, "Text", "Integer")
                THEN /\ ChangesType(invoked[1], leaf, "TEXT_TO_INTEGER")
                     /\ ShapedAs(Tail(leaves), Tail(invoked), whole)
                ELSE IF Retypes(leaf, "Integer", "UUID")
                THEN /\ DropsDefault(invoked[1], leaf)
                     /\ n >= 2 => ChangesType(invoked[2], leaf, "INTEGER_TO_UUID")
                     /\ n >= 3 => SetsDefault(invoked[3], leaf)
                     /\ IF n >= 3 THEN ShapedAs(Tail(leaves), SubSeq(invoked, 4, n), whole)
                        ELSE ~whole
                ELSE /\ invoked[1] = leaf
                     /\ ShapedAs(Tail(leaves), Tail(invoked), whole)

\* C15: the operations invoked by a run are, for each leaf of the operation
\* tree in turn: exactly one type change carrying the casting expression for
\* a Text -> Integer AlterColumn; exactly three operations (drop default,
\* type change with casting expression, set default gen_random_uuid()) in
\* this order for an Integer -> UUID AlterColumn; the very same operation for
\* every other leaf.
C15_TransformerShape ==
    \A t \in Contexts :
        HasTree(t) =>
            ShapedAs(Leaves(run[t].tree), run[t].invoked,
                     AfterTxn(t) /\ run[t].outcome = "applied")

\* C15 witness: an applied run has invoked the three operations of an
\* Integer -> UUID change, the operation of a Text -> Integer change, and
\* an operation passed through.
C15_Witness ==
    \E t \in Contexts :
        /\ AfterTxn(t) /\ run[t].outcome = "applied"
        /\ \E i, j, k \in DOMAIN run[t].invoked :
              /\ run[t].invoked[i].kind = "AlterColumnOp"
              /\ run[t].invoked[i].postgresql_using = "TEXT_TO_INTEGER"
              /\ run[t].invoked[j].kind = "AlterColumnOp"
              /\ run[t].invoked[j].modify_server_default = "gen_random_uuid()"
              /\ run[t].invoked[k].kind = "AddColumnOp"

\* The breadth-first traversal of a forest, level by level: the leaves of a
\* level in order, then the traversal of the children of its grouping nodes.
RECURSIVE LevelOrder(_)
LevelOrder(level) ==
    IF level = << >> THEN << >>
    ELSE LET groups == SelectSeq(level, HasOps)
             leaves == SelectSeq(level, LAMBDA e : ~HasOps(e))
         IN  leaves \o LevelOrder(Concat([i \in DOMAIN groups |-> groups[i].ops]))

\* What is left to do in the loop: every node still in the queue, a leaf
\* counting for its dequeuing and the (at most three) invocations it leads
\* to, and every operation waiting to be invoked.
RECURSIVE Weight(_)
Weight(elems) ==
    IF elems = << >> THEN 0
    ELSE (IF HasOps(Head(elems)) THEN 1 + Weight(Head(elems).ops) ELSE 1 + 3)
         + Weight(Tail(elems))

Remaining(stk, pnd) == Weight(stk) + Len(pnd)

\* The operations invoked so far are those of the leaves of the tree taken
\* in breadth-first order, each leaf once, all of them once the run has
\* committed; and the loop is never left waiting with nothing to do.
C16_InvokedBreadthFirst ==
    \A t \in Contexts :
        /\ HasTree(t) =>
              ShapedAs(LevelOrder(<< run[t].tree >>), run[t].invoked,
                       AfterTxn(t) /\ run[t].outcome = "applied")
        /\ pc[t] = "loop" => Remaining(stack[t], pending[t]) > 0

\* Every step of the loop leaves strictly less to do.
C16_LoopStep ==
    \A t \in Contexts :
        (pc[t] = "loop" /\ <<stack[t], pending[t]>>' # <<stack[t], pending[t]>>)
            => Remaining(stack'[t], pending'[t]) < Remaining(stack[t], pending[t])

\* C16: the operations invoked by the executor are the leaves of the
\* operation tree in breadth-first order (grouping nodes replaced by their
\* children at the end of the queue), every leaf invoked exactly once, and
\* the traversal terminates: each loop step decreases what is left to do.
C16_Flattening == []C16_InvokedBreadthFirst /\ [][C16_LoopStep]_vars

\* C16 witness: a run has committed a tree of two grouping nodes, each with
\* at least two leaves, all invoked.
C16_Witness ==
    \E t \in Contexts :
        /\ AfterTxn(t) /\ run[t].outcome = "applied"
        /\ Len(run[t].tree.ops) = 2
        /\ \A i \in DOMAIN run[t].tree.ops :
              HasOps(run[t].tree.ops[i]) /\ Len(run[t].tree.ops[i].ops) >= 2
        /\ Len(run[t].invoked) >= 4

\* The position of element e in the sequence s that contains it.
Position(s, e) == CHOOSE i \in DOMAIN s : s[i] = e

\* AddColumn before AlterColumn before DropColumn.
KindRank(op) ==
    CASE op.kind = "AddColumnOp" -> 1
      [] op.kind = "AlterColumnOp" -> 2
      [] op.kind = "DropColumnOp" -> 3
      [] OTHER -> 0

\* The operations of one table are contiguous in plan, the tables come in
\* the order of the sequence `tables`, and within a table every AddColumn
\* precedes every AlterColumn, which precedes every DropColumn.
OrderedBy(plan, tables) ==
    \A i, j \in DOMAIN plan :
        i < j =>
            LET ti == plan[i].table_name
                tj == plan[j].table_name
            IN  /\ ti = tj => \A k \in i..j : plan[k].table_name = ti
                /\ Position(tables, ti) <= Position(tables, tj)
                /\ ti = tj => KindRank(plan[i]) <= KindRank(plan[j])

\* C17 as stated: in the applied plan the operations of one table are
\* contiguous, the tables appear in the order they were declared, and within
\* a table AddColumn precedes AlterColumn, which precedes DropColumn.
C17_DeclaredOrder ==
    \A t \in Contexts : OrderedBy(run[t].invoked, registry.order)

\* C17 as amended: in the applied plan the operations of one table are
\* contiguous, the tables appear in ascending order of their names (whatever
\* the order of their declaration), and within a table AddColumn precedes
\* AlterColumn, which precedes DropColumn.
C17_NameOrder ==
    \A t \in Contexts : OrderedBy(run[t].invoked, SortedTables)

\* C17 witness: with table b declared before table a, an applied plan holds
\* operations of both tables, with an AddColumn and an AlterColumn of the
\* same table.
C17_Witness ==
    \E t \in Contexts :
        /\ AfterTxn(t) /\ run[t].outcome = "applied"
        /\ registry.order = <<"b", "a">>
        /\ \A tn \in TableNames :
              \E i \in DOMAIN run[t].invoked : run[t].invoked[i].table_name = tn
        /\ \E i, j \in DOMAIN run[t].invoked :
              /\ run[t].invoked[i].table_name = run[t].invoked[j].table_name
              /\ run[t].invoked[i].kind = "AddColumnOp"
              /\ run[t].invoked[j].kind = "AlterColumnOp"

\* C20: the rewrite of an AlterColumn operation loses no declared change: in
\* an applied run, the new nullability carried by a leaf of the operation
\* tree is carried by an operation invoked for that column.
C20_ChangesCarried ==
    \A t \in Contexts :
        (AfterTxn(t) /\ run[t].outcome = "applied") =>
            \A i \in DOMAIN Leaves(run[t].tree) :
                LET leaf == Leaves(run[t].tree)[i] IN
                (leaf.kind = "AlterColumnOp" /\ leaf.modify_nullable # "None") =>
                    \E j \in DOMAIN run[t].invoked :
                        /\ SameColumn(run[t].invoked[j], leaf)
                        /\ run[t].invoked[j].modify_nullable = leaf.modify_nullable

\* The context is inside __update_schema or the rest of the guarded block.
InRun(t) ==
    pc[t] \in {"setup", "reflect", "create_all", "connect", "diff", "loop", "commit",
              "except", "seed", "init_cron"}

\* In a run where an invocation has failed, commit has not been called, the
\* loop has been left, and rollback has been called once when the
\* transaction is over, never more; in a run that ended applied (every
\* invocation and the commit succeeded) rollback has not been called.
C21_FailureEndsRun ==
    \A t \in Contexts :
        InRun(t) =>
            /\ run[t].rollbacks <= 1
            /\ run[t].failure = "ddl" =>
                  /\ run[t].commits = 0
                  /\ pc[t] \in {"except", "seed", "init_cron"}
                  /\ AfterTxn(t) => run[t].rollbacks = 1
            /\ run[t].outcome = "applied" => run[t].rollbacks = 0

\* After a failed invocation no step of the run invokes another operation.
C21_NothingInvokedAfterFailure ==
    \A t \in Contexts :
        (InRun(t) /\ InRun(t)' /\ run[t].failure = "ddl")
            => run'[t].invoked = run[t].invoked

\* C21: once the invocation of an operation fails in a run, no later
\* operation of the plan is invoked, commit is never called and rollback is
\* called exactly once; rollback is never called in a run in which every
\* operation and the commit succeeded.
C21_RollbackOnFailureOnly ==
    []C21_FailureEndsRun /\ [][C21_NothingInvokedAfterFailure]_vars

\* C21 witness: an invocation failed while operations of the plan were still
\* to be invoked, and the run has been rolled back without a commit.
C21_Witness ==
    \E t \in Contexts :
        /\ AfterTxn(t)
        /\ run[t].failure = "ddl"
        /\ run[t].rollbacks = 1 /\ run[t].commits = 0
        /\ Len(run[t].invoked) >= 1
        /\ Len(run[t].invoked) < Len(PlanOf(run[t].tree))

---------------------------------------------------------------------------
\* Properties of the constructor.

\* C18: the synchronous pool and the asynchronous pool are each created at
\* most once, whatever the interleaving of the first constructions, and no
\* other engine is created: the migration transaction uses the synchronous
\* (administrative) pool.
C18_PoolsCreatedOnce ==
    /\ engines.sync <= 1
    /\ engines.async <= 1
    /\ engines.migration = 0

\* The positions of __init__ inside a "with GenericDAL.lock" block.
Locked ==
    {"mk_sync", "mk_async", "rechk_init", "setup", "reflect", "create_all",
     "connect", "diff", "loop", "commit", "except", "seed", "init_cron"}

\* The lock is held by a context exactly while that context is inside one of
\* its locked sections: it is free again on every way out of a section, the
\* exceptions that leave the guarded block included.
C19_LockHeldInside ==
    /\ lock \in {0} \cup Contexts
    /\ \A t \in Contexts : lock = t <=> pc[t] \in Locked

\* Every call of the constructor returns or raises.
C19_ConstructorEnds == \A t \in Contexts : (pc[t] # "idle") ~> (pc[t] \in Ended)

\* C19: the lock is released on every exit path of each locked section of
\* the constructor, also when the guarded block raises; hence, each database
\* call returning or raising, every constructor call eventually returns or
\* raises and none waits forever for the lock.
C19_LockReleased == []C19_LockHeldInside /\ C19_ConstructorEnds

\* C19 witness: a context has left the guarded block by an exception and
\* another context holds the lock after it.
C19_Witness ==
    \E t, u \in Contexts :
        /\ t # u
        /\ pc[t] = "raised" /\ run[t].runNo = 1
        /\ lock = u /\ run[u].runNo = 2

====
